---- MODULE Spec2Model ----
(***************************************************************************)
(* State-machine model of SJPUVectorSystem (src/sjpu_system.py): the       *)
(* capacity-bounded vector store with its two backends (a faiss            *)
(* IndexIVFFlat, or a numpy array searched exhaustively), validate_vector, *)
(* add_to_db, query_db and get_system_stats.                               *)
(*                                                                         *)
(* Floating-point numbers are pairs <<kind, n>>:                           *)
(*   <<"fin", n>>   the finite number n (a small integer)                  *)
(*   <<"nan", 0>>   NaN                                                    *)
(*   <<"inf", s>>   +Infinity (s = 1) or -Infinity (s = -1)                *)
(*   <<"max", s>>   the largest finite number of the float type, signed s  *)
(*   <<"sqrt", n>>  the square root of the finite number n                 *)
(* Metadata records are opaque to the store; a record is modelled by the   *)
(* number of the add_to_db call that supplied it.                          *)
(***************************************************************************)
EXTENDS Integers, Sequences, FiniteSets

\* ---------------------------------------------------------------- bounds
\* self.dim of the modelled store
Dim == 2
\* config.MAX_DB_SIZE of the modelled store (the capacity N)
MAX_DB_SIZE == 2
\* add_to_db calls with a vector argument made in one behaviour
MaxAdds == 4

VARIABLES
    faiss,         \* TRUE iff `import faiss` succeeded (module-level name faiss is not None)
    pc,            \* "new" before __init__, "failed" if it raised, "returned" when a call
                   \* has just ended and the caller holds its outcome, "ready" between calls
    use_faiss,     \* self.use_faiss
    knowledge_db,  \* self.knowledge_db: [kind, trained, rows]
    metadata,      \* self.metadata
    vectors,       \* self.vectors
    add_times,     \* len(self.benchmark_results['add_times'])
    nAdds,         \* history: number of add_to_db calls made with a vector argument
    recent,        \* history: the last MAX_DB_SIZE add_to_db calls, <<float32 vector, meta>>
    last,          \* the last call: its name, arguments and outcome
    vin,           \* argument of a stand-alone validate_vector call
    vout           \* its outcome

storeVars == <<use_faiss, knowledge_db, metadata, vectors>>
vars == <<faiss, pc, use_faiss, knowledge_db, metadata, vectors, add_times,
          nAdds, recent, last, vin, vout>>

\* ---------------------------------------------------------------- numbers
Fin(n) == <<"fin", n>>
NaN == <<"nan", 0>>
PosInf == <<"inf", 1>>
NegInf == <<"inf", -1>>

Min(a, b) == IF a <= b THEN a ELSE b
Max(a, b) == IF a >= b THEN a ELSE b

\* np.isfinite on one element
IsFinite(x) == x[1] \in {"fin", "max"}

\* np.nan_to_num on one float64 element, default arguments: NaN becomes 0.0,
\* +Infinity the largest finite float64, -Infinity the most negative one
NanToNum(x) ==
    IF x[1] = "nan" THEN Fin(0)
    ELSE IF x[1] = "inf" THEN <<"max", x[2]>>
    ELSE x

\* ndarray.astype(np.float32) on one element: the largest float64 values are
\* beyond the float32 range and become infinities
AsFloat32(x) == IF x[1] = "max" THEN <<"inf", x[2]>> ELSE x

\* float32 subtraction a - b
FSub(a, b) ==
    IF a[1] = "nan" \/ b[1] = "nan" THEN NaN
    ELSE IF a[1] = "inf" /\ b[1] = "inf"
         THEN (IF a[2] = b[2] THEN NaN ELSE <<"inf", a[2]>>)
    ELSE IF a[1] = "inf" THEN a
    ELSE IF b[1] = "inf" THEN <<"inf", 0 - b[2]>>
    ELSE Fin(a[2] - b[2])

RECURSIVE SumSq(_)
\* sum of the squares of a sequence of finite numbers
SumSq(d) == IF d = <<>> THEN 0 ELSE d[1][2] * d[1][2] + SumSq(Tail(d))

\* sum((a - b) ** 2) over one row
SqDist(a, b) ==
    LET d == [i \in 1..Len(a) |-> FSub(a[i], b[i])]
    IN IF \E i \in 1..Len(d) : d[i][1] = "nan" THEN NaN
       ELSE IF \E i \in 1..Len(d) : d[i][1] = "inf" THEN PosInf
       ELSE Fin(SumSq(d))

\* square root of a non-negative float
FSqrt(x) == IF x[1] = "fin" THEN <<"sqrt", x[2]>> ELSE x

\* np.linalg.norm(row - q): the Euclidean distance
L2Norm(a, b) == FSqrt(SqDist(a, b))

\* position of a float in numpy's sort order: numbers, then +Infinity, then NaN
Rank(d) == IF d[1] = "nan" THEN 2 ELSE IF d[1] = "inf" THEN 1 ELSE 0
SortLeq(a, b) ==
    \/ Rank(a) < Rank(b)
    \/ Rank(a) = Rank(b) /\ (Rank(a) # 0 \/ a[2] <= b[2])

\* IEEE comparison a <= b of two distances (false when either is NaN)
FloatLeq(a, b) == a[1] # "nan" /\ b[1] # "nan" /\ SortLeq(a, b)

\* ---------------------------------------------------------------- inputs
RawValues == {Fin(0), Fin(1), NaN, PosInf, NegInf}

\* An argument is [nd, data]: nd = 1 for a sequence of numbers, nd = 0 for a
\* bare number (np.array of it is 0-dimensional).
Vec(data) == [nd |-> 1, data |-> data]
ScalarInput == [nd |-> 0, data |-> <<Fin(1)>>]

\* every sequence of at most Dim + 1 numbers
AllSeqs == UNION {[1..n -> RawValues] : n \in 0..(Dim + 1)}

\* arguments of the stand-alone validate_vector calls
AllRaw == {Vec(d) : d \in AllSeqs} \cup {ScalarInput}

\* the vector of Dim numbers that holds x at position i and 0 elsewhere
Unit(i, x) == [j \in 1..Dim |-> IF j = i THEN x ELSE Fin(0)]

\* a sequence one number too short, and one one number too long
ShortSeq == [j \in 1..(Dim - 1) |-> Fin(1)]
LongSeq == [j \in 1..(Dim + 1) |-> Fin(1)]

\* arguments of add_to_db: vectors with at most one entry that is not 0, a
\* short and a long sequence, and a bare number
AddInputs ==
    {Vec(Unit(i, x)) : i \in 1..Dim, x \in {Fin(0), Fin(1), NaN, PosInf}}
        \cup {Vec(ShortSeq), Vec(LongSeq), ScalarInput}

\* arguments of query_db
QueryInputs ==
    {Vec(Unit(1, x)) : x \in {Fin(0), Fin(1), NaN, PosInf}}
        \cup {Vec(ShortSeq), Vec(LongSeq), ScalarInput}

\* values of k passed to query_db
KValues == (0 - 1)..(MAX_DB_SIZE + 1)

\* ---------------------------------------------------------------- validate_vector
\* SJPUVectorSystem.validate_vector: [raised, vec, warns]
validate_vector(vec) ==
    IF vec.nd = 0
    THEN \* vec.shape[0] of a 0-dimensional array: IndexError
         [raised |-> TRUE, vec |-> <<>>, warns |-> {}]
    ELSE LET old_dim == Len(vec.data)
             sized == IF old_dim = Dim THEN vec.data
                      ELSE IF old_dim > Dim THEN SubSeq(vec.data, 1, Dim)
                      ELSE vec.data \o [i \in 1..(Dim - old_dim) |-> Fin(0)]
             w1 == IF old_dim = Dim THEN {} ELSE {"resized"}
             allFinite == \A i \in 1..Len(sized) : IsFinite(sized[i])
             out == IF allFinite THEN sized
                    ELSE [i \in 1..Len(sized) |-> NanToNum(sized[i])]
             w2 == IF allFinite THEN {} ELSE {"nonfinite"}
         IN [raised |-> FALSE, vec |-> out, warns |-> w1 \cup w2]

\* vec.astype(np.float32) on a whole vector
astype_f32(v) == [i \in 1..Len(v) |-> AsFloat32(v[i])]

\* ---------------------------------------------------------------- backends
\* np.empty((0, self.dim)): the fallback backend's array, one row per vector
EmptyArray == [kind |-> "ndarray", trained |-> FALSE, rows |-> <<>>]

\* faiss.IndexIVFFlat(quantizer, dim, N_CLUSTERS): a new index holds nothing
\* and is not trained
NewIndex == [kind |-> "ivf", trained |-> FALSE, rows |-> <<>>]

\* IndexIVFFlat.train
IndexTrain(ix) == [ix EXCEPT !.trained = TRUE]

\* IndexIVFFlat.add(xs): faiss refuses vectors while the index is untrained
\* (RuntimeError: 'is_trained' failed)
IndexAdd(ix, xs) ==
    IF ix.trained
    THEN [ok |-> TRUE, db |-> [ix EXCEPT !.rows = ix.rows \o xs]]
    ELSE [ok |-> FALSE, db |-> ix]

\* knowledge_db.ntotal, and len(knowledge_db) of the array
ntotal(db) == Len(db.rows)

\* the outcome recorded for a call
Outcome(op, raised, warns, arg, k, metas, dists, stats, fault) ==
    [op |-> op, raised |-> raised, warns |-> warns, arg |-> arg, k |-> k,
     metas |-> metas, dists |-> dists, stats |-> stats, fault |-> fault]

\* ---------------------------------------------------------------- get_system_stats
\* SJPUVectorSystem.get_system_stats as a function of the store
SystemStats(uf, db, md) ==
    [dim |-> Dim, db_size |-> ntotal(db), max_db_size |-> MAX_DB_SIZE,
     using_faiss |-> uf, metadata_count |-> Len(md)]

\* the stats field of a call that is not get_system_stats
NoStats == SystemStats(FALSE, EmptyArray, <<>>)

\* no call has been made, or its outcome has been dropped
NoCall == Outcome("none", FALSE, {}, <<>>, 0, <<>>, <<>>, NoStats, "none")

\* ---------------------------------------------------------------- __init__
Init ==
    /\ faiss \in BOOLEAN
    /\ pc = "new"
    /\ use_faiss = FALSE
    /\ knowledge_db = EmptyArray
    /\ metadata = <<>>
    /\ vectors = <<>>
    /\ add_times = 0
    /\ nAdds = 0
    /\ recent = <<>>
    /\ last = NoCall
    /\ vin = ScalarInput
    /\ vout = [raised |-> FALSE, vec |-> <<>>, warns |-> {}]

\* SJPUVectorSystem.__init__ / _initialize_database. fault is what goes wrong
\* inside faiss: "ctor" an exception building the index (lines 46-48), "train"
\* an exception from train or from allocating its data (lines 67-68).
Construct ==
    /\ pc = "new"
    /\ \E fault \in {"none", "ctor", "train"} :
        /\ (fault # "none") => faiss
        /\ metadata' = <<>>
        /\ vectors' = <<>>
        /\ IF ~faiss
           THEN /\ use_faiss' = FALSE
                /\ knowledge_db' = EmptyArray
                /\ pc' = "returned"
                /\ last' = Outcome("init", FALSE, {"faiss_missing"}, <<>>, 0,
                                   <<>>, <<>>, NoStats, fault)
           ELSE IF fault = "ctor"
           THEN /\ use_faiss' = FALSE
                /\ knowledge_db' = EmptyArray
                /\ pc' = "returned"
                /\ last' = Outcome("init", FALSE, {"faiss_init"}, <<>>, 0,
                                   <<>>, <<>>, NoStats, fault)
           ELSE IF fault = "train"
           THEN /\ use_faiss' = TRUE
                /\ knowledge_db' = NewIndex
                /\ pc' = "failed"
                /\ last' = Outcome("init", TRUE, {}, <<>>, 0,
                                   <<>>, <<>>, NoStats, fault)
           ELSE /\ use_faiss' = TRUE
                /\ knowledge_db' = IndexTrain(NewIndex)
                /\ pc' = "returned"
                /\ last' = Outcome("init", FALSE, {}, <<>>, 0,
                                   <<>>, <<>>, NoStats, fault)
    /\ UNCHANGED <<faiss, add_times, nAdds, recent, vin, vout>>

\* ---------------------------------------------------------------- add_to_db
\* the capacity test of add_to_db (lines 206 and 217)
AtCapacity(db) == ntotal(db) >= MAX_DB_SIZE

\* add_to_db with the indexed backend (lines 206-215), from the validated
\* float32 vector on: [raised, db, md, vs]
AddFaiss(db, md, vs, vec, meta) ==
    IF AtCapacity(db) /\ md = <<>>
    THEN \* metadata.pop(0) of an empty list: IndexError
         [raised |-> TRUE, db |-> db, md |-> md, vs |-> vs]
    ELSE IF AtCapacity(db) /\ vs = <<>>
    THEN \* vectors.pop(0) of an empty list: IndexError
         [raised |-> TRUE, db |-> db, md |-> Tail(md), vs |-> vs]
    ELSE LET md1 == IF AtCapacity(db) THEN Tail(md) ELSE md
             vs1 == IF AtCapacity(db) THEN Tail(vs) ELSE vs
             db1 == IF AtCapacity(db) THEN NewIndex ELSE db
             r1 == IF AtCapacity(db) /\ vs1 # <<>>
                   THEN IndexAdd(db1, vs1)
                   ELSE [ok |-> TRUE, db |-> db1]
             r2 == IF r1.ok THEN IndexAdd(r1.db, <<vec>>) ELSE r1
         IN IF r2.ok
            THEN [raised |-> FALSE, db |-> r2.db,
                  md |-> Append(md1, meta), vs |-> Append(vs1, vec)]
            ELSE [raised |-> TRUE, db |-> r2.db, md |-> md1, vs |-> vs1]

\* add_to_db with the fallback backend (lines 217-221): [raised, db, md, vs]
AddNumpy(db, md, vs, vec, meta) ==
    LET db1 == IF AtCapacity(db) THEN [db EXCEPT !.rows = Tail(db.rows)] ELSE db
    IN IF AtCapacity(db) /\ md = <<>>
       THEN \* metadata.pop(0) of an empty list: IndexError
            [raised |-> TRUE, db |-> db1, md |-> md, vs |-> vs]
       ELSE LET md1 == IF AtCapacity(db) THEN Tail(md) ELSE md
            IN [raised |-> FALSE,
                db |-> [db1 EXCEPT !.rows = Append(db1.rows, vec)],
                md |-> Append(md1, meta), vs |-> vs]

\* the last MAX_DB_SIZE entries of a sequence
LastN(s) == SubSeq(s, Max(1, Len(s) - MAX_DB_SIZE + 1), Len(s))

\* SJPUVectorSystem.add_to_db(raw, meta)
AddToDbCall(raw, meta) ==
    LET v == validate_vector(raw)
    IN IF v.raised
       THEN /\ last' = Outcome("add", TRUE, v.warns, <<>>, meta, <<>>, <<>>,
                               NoStats, "none")
            /\ UNCHANGED <<knowledge_db, metadata, vectors, add_times, nAdds, recent>>
       ELSE LET vec_f32 == astype_f32(v.vec)
                r == IF use_faiss
                     THEN AddFaiss(knowledge_db, metadata, vectors, vec_f32, meta)
                     ELSE AddNumpy(knowledge_db, metadata, vectors, vec_f32, meta)
            IN /\ knowledge_db' = r.db
               /\ metadata' = r.md
               /\ vectors' = r.vs
               /\ add_times' = IF r.raised THEN add_times ELSE add_times + 1
               /\ nAdds' = nAdds + 1
               /\ recent' = LastN(Append(recent, <<vec_f32, meta>>))
               /\ last' = Outcome("add", r.raised, v.warns, vec_f32, meta,
                                  <<>>, <<>>, NoStats, "none")

AddToDb ==
    /\ pc = "ready"
    /\ nAdds < MaxAdds
    /\ \E raw \in AddInputs : AddToDbCall(raw, nAdds + 1)
    /\ pc' = "returned"
    /\ UNCHANGED <<faiss, use_faiss, vin, vout>>

\* ---------------------------------------------------------------- query_db
\* list[i] of Python for a 0-based, possibly negative, index
PyIndexOk(list, i) == (0 - Len(list)) <= i /\ i < Len(list)
PyIndex(list, i) == IF i >= 0 THEN list[i + 1] ELSE list[Len(list) + i + 1]

\* number of elements of a[:m] for a sequence of n elements
PySliceStop(n, m) == IF m >= 0 THEN Min(m, n) ELSE Max(n + m, 0)

\* the orders (0-based positions) in which a sort may put the positions S of
\* the distances d: ascending, NaN last, equal keys in any order
SortedOrders(d, S) ==
    {p \in [1..Cardinality(S) -> S] :
        /\ \A i, j \in 1..Cardinality(S) : i # j => p[i] # p[j]
        /\ \A i \in 1..(Cardinality(S) - 1) : SortLeq(d[p[i] + 1], d[p[i + 1] + 1])}

\* np.argsort(dists): every order the sort may return
ArgSorts(d) == SortedOrders(d, 0..(Len(d) - 1))

\* [self.metadata[i] for i in idx], dists: the result of a search whose index
\* list is idx and whose distance list is ds
Gather(md, idx, ds) ==
    IF \E i \in 1..Len(idx) : ~PyIndexOk(md, idx[i])
    THEN [raised |-> TRUE, metas |-> <<>>, dists |-> <<>>]
    ELSE [raised |-> FALSE,
          metas |-> [i \in 1..Len(idx) |-> PyIndex(md, idx[i])],
          dists |-> ds]

\* query_db with the fallback backend (lines 236-240): the set of possible
\* results [raised, metas, dists]
QueryNumpy(db, md, q, k) ==
    IF ntotal(db) = 0
    THEN {[raised |-> FALSE, metas |-> <<>>, dists |-> <<>>]}
    ELSE LET dists == [i \in 1..ntotal(db) |-> L2Norm(db.rows[i], q)]
             n == PySliceStop(Len(dists), Min(k, Len(dists)))
         IN {Gather(md, SubSeq(p, 1, n), [i \in 1..n |-> dists[p[i] + 1]]) :
                p \in ArgSorts(dists)}

\* the distance faiss reports for a result slot it could not fill: the
\* largest float32
UnfilledDist == <<"max", 1>>

\* IndexIVFFlat.search(q, k): the set of possible results [raised, D, I].
\* Only the vectors of the nprobe probed clusters are candidates, so any subset
\* of the stored vectors may be; the candidates come nearest-first by squared
\* distance and the slots left over hold label -1. k < 0 raises; k = 0 raises
\* in the faiss versions that assert k > 0 and returns no slot in the others.
IndexSearch(ix, q, k) ==
    IF ~ix.trained \/ k < 0
    THEN {[raised |-> TRUE, D |-> <<>>, I |-> <<>>]}
    ELSE IF k = 0
    THEN {[raised |-> TRUE, D |-> <<>>, I |-> <<>>],
          [raised |-> FALSE, D |-> <<>>, I |-> <<>>]}
    ELSE LET d == [i \in 1..ntotal(ix) |-> SqDist(ix.rows[i], q)]
         IN {[raised |-> FALSE,
              D |-> [i \in 1..k |-> IF i <= Len(p) THEN d[p[i] + 1] ELSE UnfilledDist],
              I |-> [i \in 1..k |-> IF i <= Len(p) THEN p[i] ELSE 0 - 1]] :
                p \in UNION {SortedOrders(d, S) : S \in SUBSET (0..(ntotal(ix) - 1))}}

\* query_db with the indexed backend (lines 230-234)
QueryFaiss(db, md, q, k) ==
    IF ntotal(db) = 0
    THEN {[raised |-> FALSE, metas |-> <<>>, dists |-> <<>>]}
    ELSE {IF r.raised THEN [raised |-> TRUE, metas |-> <<>>, dists |-> <<>>]
          ELSE Gather(md, r.I, r.D) :
             r \in IndexSearch(db, q, Min(k, ntotal(db)))}

\* SJPUVectorSystem.query_db(raw, k)
QueryDbCall(raw, k) ==
    LET v == validate_vector(raw)
    IN IF v.raised
       THEN last' = Outcome("query", TRUE, v.warns, <<>>, k, <<>>, <<>>,
                            NoStats, "none")
       ELSE LET query_f32 == astype_f32(v.vec)
            IN \E r \in (IF use_faiss
                         THEN QueryFaiss(knowledge_db, metadata, query_f32, k)
                         ELSE QueryNumpy(knowledge_db, metadata, query_f32, k)) :
                  last' = Outcome("query", r.raised, v.warns, query_f32, k,
                                  r.metas, r.dists, NoStats, "none")

\* query_db reading the metadata with pop(0): every query drops the oldest record
QueryDbPopsMetadata ==
    /\ pc = "ready"
    /\ \E raw \in QueryInputs : \E k \in KValues : QueryDbCall(raw, k)
    /\ pc' = "returned"
    /\ metadata' = IF metadata = <<>> THEN metadata ELSE Tail(metadata)
    /\ UNCHANGED <<faiss, use_faiss, knowledge_db, vectors,
                   add_times, nAdds, recent, vin, vout>>

QueryDb ==
    /\ pc = "ready"
    /\ \E raw \in QueryInputs : \E k \in KValues : QueryDbCall(raw, k)
    /\ pc' = "returned"
    /\ UNCHANGED <<faiss, use_faiss, knowledge_db, metadata, vectors,
                   add_times, nAdds, recent, vin, vout>>

\* SJPUVectorSystem.get_system_stats()
GetSystemStats ==
    /\ pc = "ready"
    /\ last' = Outcome("stats", FALSE, {}, <<>>, 0, <<>>, <<>>,
                       SystemStats(use_faiss, knowledge_db, metadata), "none")
    /\ pc' = "returned"
    /\ UNCHANGED <<faiss, use_faiss, knowledge_db, metadata, vectors,
                   add_times, nAdds, recent, vin, vout>>

\* The caller is done with the outcome of a call (benchmark_db drops the
\* results of add_to_db and query_db) and goes on to its next call.
Continue ==
    /\ pc = "returned"
    /\ pc' = "ready"
    /\ last' = NoCall
    /\ UNCHANGED <<faiss, use_faiss, knowledge_db, metadata, vectors,
                   add_times, nAdds, recent, vin, vout>>

Next == Construct \/ AddToDb \/ QueryDb \/ GetSystemStats \/ Continue

Spec == Init /\ [][Next]_vars

\* ---------------------------------------------------------------- validate_vector alone
NotCalled == [raised |-> FALSE, vec |-> <<>>, warns |-> {"not called"}]

InitValidate ==
    /\ faiss = FALSE
    /\ pc = "validate"
    /\ use_faiss = FALSE
    /\ knowledge_db = EmptyArray
    /\ metadata = <<>>
    /\ vectors = <<>>
    /\ add_times = 0
    /\ nAdds = 0
    /\ recent = <<>>
    /\ last = NoCall
    /\ vin \in AllRaw
    /\ vout = NotCalled

\* one call validate_vector(vin)
ValidateVector ==
    /\ pc = "validate"
    /\ vout = NotCalled
    /\ vout' = validate_vector(vin)
    /\ pc' = "validated"
    /\ UNCHANGED <<faiss, use_faiss, knowledge_db, metadata, vectors,
                   add_times, nAdds, recent, last, vin>>

NextValidate == ValidateVector

SpecValidate == InitValidate /\ [][NextValidate]_vars

\* ---------------------------------------------------------------- properties
Constructed == pc \in {"ready", "returned"}

\* the call that has just ended, when it got a vector argument through
\* validate_vector
Returned(op) == pc = "returned" /\ last.op = op /\ last.arg # <<>>

Range(s) == {s[i] : i \in 1..Len(s)}

\* what evicting the oldest entry at capacity leaves of a list of the store
Retained(s) == IF AtCapacity(knowledge_db) THEN Tail(s) ELSE s

\* C1: the store never holds more than MAX_DB_SIZE vectors, and once more
\* than MAX_DB_SIZE vectors have been added it holds exactly MAX_DB_SIZE: the
\* vectors and metadata of the last MAX_DB_SIZE add_to_db calls, oldest first.
C1_LastNRetained ==
    Constructed =>
        /\ ntotal(knowledge_db) <= MAX_DB_SIZE
        /\ nAdds > MAX_DB_SIZE =>
            /\ ntotal(knowledge_db) = MAX_DB_SIZE
            /\ knowledge_db.rows = [i \in 1..Len(recent) |-> recent[i][1]]
            /\ metadata = [i \in 1..Len(recent) |-> recent[i][2]]

\* C2: in every state of a constructed store, whatever calls were made and
\* however they ended, get_system_stats reports metadata_count = db_size.
C2_MetadataCountIsDbSize ==
    Constructed =>
        SystemStats(use_faiss, knowledge_db, metadata).metadata_count
            = SystemStats(use_faiss, knowledge_db, metadata).db_size

\* C3: an add_to_db call, returning or raising, leaves the store either as it
\* was or with the whole eviction and append applied.
C3_AddAtomic ==
    [][last'.op = "add" =>
          \/ UNCHANGED storeVars
          \/ /\ use_faiss' = use_faiss
             /\ knowledge_db'.kind = knowledge_db.kind
             /\ knowledge_db'.trained = knowledge_db.trained
             /\ knowledge_db'.rows = Append(Retained(knowledge_db.rows), last'.arg)
             /\ metadata' = Append(Retained(metadata), last'.k)
             /\ vectors' = IF use_faiss THEN Append(Retained(vectors), last'.arg)
                           ELSE vectors]_vars

\* C4: the constructor never raises, and when building or training the index
\* failed it ends, with a warning, on the empty fallback backend.
C4_ConstructNeverFails ==
    /\ pc # "failed"
    /\ (pc = "returned" /\ last.op = "init") =>
          /\ ~last.raised
          /\ last.fault # "none" =>
                /\ ~use_faiss
                /\ knowledge_db = EmptyArray
                /\ last.warns # {}

\* C5: a query of a store of s > 0 vectors with k > s returns exactly s
\* results, and a query with k <= 0 raises nothing, in both backends.
C5_KClamped ==
    Returned("query") =>
        /\ (ntotal(knowledge_db) > 0 /\ last.k > ntotal(knowledge_db)) =>
              /\ ~last.raised
              /\ Len(last.metas) = ntotal(knowledge_db)
              /\ Len(last.dists) = ntotal(knowledge_db)
        /\ last.k <= 0 => ~last.raised

\* the position in the store of the entry whose metadata is m
PosOf(m) == CHOOSE j \in 1..Len(metadata) : metadata[j] = m

\* C6: with the fallback backend and 1 <= k <= s, query_db(v, k) returns k
\* metadata records of distinct stored vectors, each with the Euclidean
\* distance of its own vector, in non-decreasing order of distance, no vector
\* left out being closer than one returned; and the first distance is 0 when
\* v equals a stored vector.
C6_NearestFirst ==
    (Returned("query") /\ ~use_faiss
        /\ 1 <= last.k /\ last.k <= ntotal(knowledge_db)) =>
        /\ ~last.raised
        /\ Len(last.metas) = last.k
        /\ Len(last.dists) = last.k
        /\ \A i \in 1..Len(last.metas) : last.metas[i] \in Range(metadata)
        /\ \A i, j \in 1..Len(last.metas) : i # j => last.metas[i] # last.metas[j]
        /\ \A i \in 1..Len(last.metas) :
              last.dists[i] = L2Norm(knowledge_db.rows[PosOf(last.metas[i])], last.arg)
        /\ \A i \in 1..(Len(last.dists) - 1) : FloatLeq(last.dists[i], last.dists[i + 1])
        /\ \A j \in 1..ntotal(knowledge_db) :
              metadata[j] \notin Range(last.metas) =>
                 FloatLeq(last.dists[Len(last.dists)], L2Norm(knowledge_db.rows[j], last.arg))
        /\ last.arg \in Range(knowledge_db.rows) => last.dists[1] = <<"sqrt", 0>>

\* C7: validate_vector(v) has exactly Dim entries; entry i is v[i] when v has
\* an entry i and it is finite, and 0 otherwise.
C7_ValidateZeroes ==
    (pc = "validated" /\ vin.nd = 1) =>
        /\ ~vout.raised
        /\ Len(vout.vec) = Dim
        /\ \A i \in 1..Dim :
              vout.vec[i] = IF i <= Len(vin.data) /\ IsFinite(vin.data[i])
                            THEN vin.data[i] ELSE Fin(0)

\* C8: query_db and get_system_stats leave the backend, its contents, the
\* metadata list and the raw-vector list as they were; only the constructor
\* and add_to_db change the store, and an entry leaves it only in an
\* add_to_db call made at capacity.
C8_QueryLeavesStore ==
    [][/\ last'.op \in {"query", "stats"} => UNCHANGED storeVars
       /\ storeVars' # storeVars => last'.op \in {"init", "add"}
       /\ (Range(metadata) \ Range(metadata') # {}
             \/ Len(knowledge_db'.rows) < Len(knowledge_db.rows)) =>
              (last'.op = "add" /\ AtCapacity(knowledge_db))]_vars

\* a query of a full store, made after an eviction, has returned all of it
C8_Witness ==
    /\ Returned("query")
    /\ ~last.raised
    /\ nAdds > MAX_DB_SIZE
    /\ Len(last.metas) = MAX_DB_SIZE
    /\ Len(metadata) = MAX_DB_SIZE

\* C9: a query of a store without entries returns two empty sequences for
\* every k, and the emptiness test of query_db on the backend agrees with the
\* metadata list.
C9_EmptyIffNoMetadata ==
    Returned("query") =>
        /\ metadata = <<>> =>
              (~last.raised /\ last.metas = <<>> /\ last.dists = <<>>)
        /\ (ntotal(knowledge_db) = 0) <=> (metadata = <<>>)

\* C10: with the indexed backend an add_to_db call made at capacity raises
\* nothing and leaves a trained index that holds the retained vectors, oldest
\* first, and then the new one, position for position with the metadata.
C10_RebuildKeepsIndex ==
    [][(last'.op = "add" /\ last'.arg # <<>> /\ use_faiss
            /\ AtCapacity(knowledge_db)) =>
          /\ ~last'.raised
          /\ knowledge_db'.trained
          /\ knowledge_db'.rows = Append(Tail(vectors), last'.arg)
          /\ vectors' = knowledge_db'.rows
          /\ metadata' = Append(Tail(metadata), last'.k)]_vars

====
